---- MODULE Spec2Model ----
(***************************************************************************)
(* Prompt of Troy: prompt store, battle store and battle execution.        *)
(*                                                                         *)
(* Texts are sequences of one-character strings.  Python floats are        *)
(* modelled as a binary floating-point format with MantissaBits            *)
(* significant bits, round-to-nearest-even after every operation, and a    *)
(* smallest quantum of 2^-FracBits; a number is stored as the integer      *)
(* count of quanta.                                                        *)
(***************************************************************************)
EXTENDS Integers, Sequences, FiniteSets, TLC

(***************************************************************************)
(* Bounds of the model.                                                    *)
(***************************************************************************)
MantissaBits == 12
MaxBattles == 1
MaxSeries == 2
MaxPending == 2
MaxRestarts == 1
MaxCount == 3
MaxKeyLength == 2

(***************************************************************************)
(* Floating point.                                                         *)
(***************************************************************************)
FracBits == MantissaBits + 2
One == 2 ^ FracBits

Abs(x) == IF x < 0 THEN 0 - x ELSE x

RECURSIVE BitLength(_)
BitLength(n) == IF n = 0 THEN 0 ELSE 1 + BitLength(n \div 2)

\* The representable number nearest to num/den quanta (den > 0), ties to even.
RoundRat(num, den) ==
    LET a    == Abs(num)
        bl   == BitLength(a \div den)
        s    == IF bl > MantissaBits THEN 2 ^ (bl - MantissaBits) ELSE 1
        unit == s * den
        m    == a \div unit
        rem  == a - m * unit
        up   == IF rem > unit - rem \/ (rem = unit - rem /\ m % 2 = 1) THEN 1 ELSE 0
        r    == (m + up) * s
    IN  IF num < 0 THEN 0 - r ELSE r

FromInt(i) == RoundRat(i * One, 1)
FAdd(a, b) == RoundRat(a + b, 1)
FSub(a, b) == RoundRat(a - b, 1)
FMulInt(k, a) == RoundRat(k * a, 1)
FDivInt(a, k) == RoundRat(a, k)
FRecip(a) == RoundRat(One * One, a)

\* 10^(k/16) * 4096 for k = -16 .. 16
PowTable ==
    << 410, 473, 546, 631, 728, 841, 971, 1122, 1295, 1496, 1727, 1995,
       2303, 2660, 3072, 3547, 4096, 4730, 5462, 6308, 7284, 8411, 9713,
       11217, 12953, 14958, 17273, 19946, 23034, 26599, 30716, 35470, 40960 >>

\* 10 ** x for -1 <= x <= 1, interpolated linearly between the table's
\* points; exact at x = 0.
Pow10(x) ==
    LET step == One \div 16
        i    == x \div step
        frac == x % step
        lo   == PowTable[i + 17]
        hi   == IF frac = 0 THEN lo ELSE PowTable[i + 18]
    IN  RoundRat(lo * step + (hi - lo) * frac, 256)

(***************************************************************************)
(* Texts.                                                                  *)
(***************************************************************************)
None == << "None" >>
Failed == << "Failed" >>

RECURSIVE Chars(_, _)
Chars(t, i) == IF i > Len(t) THEN {} ELSE {t[i]} \cup Chars(t, i + 1)

ascii_lowercase ==
    << "a", "b", "c", "d", "e", "f", "g", "h", "i", "j", "k", "l", "m",
       "n", "o", "p", "q", "r", "s", "t", "u", "v", "w", "x", "y", "z" >>
ascii_uppercase ==
    << "A", "B", "C", "D", "E", "F", "G", "H", "I", "J", "K", "L", "M",
       "N", "O", "P", "Q", "R", "S", "T", "U", "V", "W", "X", "Y", "Z" >>
digits == << "0", "1", "2", "3", "4", "5", "6", "7", "8", "9" >>
Whitespace == { " ", "\n", "\t", "\r" }

IndexOf(c, t) == CHOOSE i \in 1..Len(t) : t[i] = c

\* str.upper()
UpperChar(c) ==
    IF c \in Chars(ascii_lowercase, 1)
    THEN ascii_uppercase[IndexOf(c, ascii_lowercase)] ELSE c
Upper(t) == [i \in 1..Len(t) |-> UpperChar(t[i])]

\* str.strip()
RECURSIVE LStrip(_)
LStrip(t) == IF t # << >> /\ Head(t) \in Whitespace THEN LStrip(Tail(t)) ELSE t
RECURSIVE RStrip(_)
RStrip(t) ==
    IF t # << >> /\ t[Len(t)] \in Whitespace
    THEN RStrip(SubSeq(t, 1, Len(t) - 1)) ELSE t
Strip(t) == RStrip(LStrip(t))

\* needle in haystack
Contains(haystack, needle) ==
    \E i \in 0..(Len(haystack) - Len(needle)) :
        SubSeq(haystack, i + 1, i + Len(needle)) = needle

\* t[::-1]
Reverse(t) == [i \in 1..Len(t) |-> t[Len(t) + 1 - i]]

\* sep.join(t), sep one text, t a sequence of texts
RECURSIVE JoinTexts(_, _)
JoinTexts(sep, ts) ==
    IF ts = << >> THEN << >>
    ELSE IF Len(ts) = 1 THEN ts[1]
    ELSE ts[1] \o sep \o JoinTexts(sep, Tail(ts))

\* sep.join(t) over the characters of the text t
Join(sep, t) == JoinTexts(sep, [i \in 1..Len(t) |-> << t[i] >>])

\* ord(c) for the characters a secret key can hold
Ord(c) ==
    IF c \in Chars(ascii_uppercase, 1) THEN 64 + IndexOf(c, ascii_uppercase)
    ELSE IF c \in Chars(ascii_lowercase, 1) THEN 96 + IndexOf(c, ascii_lowercase)
    ELSE 47 + IndexOf(c, digits)

\* str(n) for n >= 0
RECURSIVE Str(_)
Str(n) == IF n < 10 THEN << digits[n + 1] >> ELSE Str(n \div 10) \o << digits[(n % 10) + 1] >>

\* text.replace(old, new), old not empty
RECURSIVE Replace(_, _, _)
Replace(text, old, new) ==
    IF Len(text) < Len(old) THEN text
    ELSE IF SubSeq(text, 1, Len(old)) = old
         THEN new \o Replace(SubSeq(text, Len(old) + 1, Len(text)), old, new)
         ELSE << Head(text) >> \o Replace(Tail(text), old, new)

(***************************************************************************)
(* State.                                                                  *)
(*   prompts, battles       the insertion-ordered dicts of the managers    *)
(*   prompts_csv, battles_csv  the rows of data/prompts.csv, battles.csv   *)
(*   pending     /execute commands received and not yet run by the loop    *)
(*   last        the last operation, its collaborator calls and outcome    *)
(*   applied     per battle id, how often its results were applied         *)
(*   failed      per battle id, whether an execute_battle on it has failed *)
(*               because the model service did                             *)
(*   restarts    number of process restarts so far                         *)
(***************************************************************************)
VARIABLES prompts, battles, prompts_csv, battles_csv, pending, last, applied, failed,
          restarts

vars ==
    << prompts, battles, prompts_csv, battles_csv, pending, last, applied, failed, restarts >>

(***************************************************************************)
(* Insertion-ordered dict: a sequence of entries, each entry holding its   *)
(* key.                                                                    *)
(***************************************************************************)
Keys(d, key(_)) == { key(d[i]) : i \in 1..Len(d) }
Get(d, key(_), k) == d[CHOOSE i \in 1..Len(d) : key(d[i]) = k]
\* d[k] = v
Put(d, key(_), v) ==
    IF key(v) \in Keys(d, key)
    THEN [i \in 1..Len(d) |-> IF key(d[i]) = key(v) THEN v ELSE d[i]]
    ELSE Append(d, v)
\* del d[k]
Del(d, key(_), k) == SelectSeq(d, LAMBDA e : key(e) # k)

(***************************************************************************)
(* models/prompt.py                                                        *)
(***************************************************************************)
InitialRating == 1500

\* A rating is a Python number: an int, or a float after the first battle.
IntRating(i) == [float |-> FALSE, n |-> FromInt(i)]
FloatRating(n) == [float |-> TRUE, n |-> n]

Prompt(user_id, type, code_name, content) ==
    [ user_id |-> user_id, type |-> type, code_name |-> code_name,
      content |-> content, battles_won |-> 0, battles_lost |-> 0,
      rating |-> IntRating(InitialRating) ]

\* Prompt.id: "@user_id/type/code_name"
PromptId(p) == << p.user_id, p.type, p.code_name >>

(***************************************************************************)
(* managers/prompt_manager.py                                              *)
(***************************************************************************)
\* str(x) of a number as the csv writer renders it: the digits of an int,
\* the repr of a float (integer part, a point, the fraction's decimals).
RECURSIVE FracDigits(_)
FracDigits(f) ==
    IF f = 0 THEN << >>
    ELSE << digits[((f * 10) \div One) + 1] >> \o FracDigits((f * 10) % One)

NumberText(r) ==
    LET a == Abs(r.n)
        sign == IF r.n < 0 THEN << "-" >> ELSE << >>
    IN  IF ~r.float THEN sign \o Str(a \div One)
        ELSE sign \o Str(a \div One) \o << "." >>
             \o (IF a % One = 0 THEN << "0" >> ELSE FracDigits(a % One))

\* int(text): defined for a run of decimal digits, raises ValueError otherwise
IsIntText(t) == t # << >> /\ \A i \in 1..Len(t) : t[i] \in Chars(digits, 1)
RECURSIVE ParseInt(_)
ParseInt(t) ==
    IF t = << >> THEN 0
    ELSE 10 * ParseInt(SubSeq(t, 1, Len(t) - 1)) + (IndexOf(t[Len(t)], digits) - 1)

\* The row save_prompts writes for a prompt.
PromptRow(p) ==
    [ user_id |-> p.user_id, type |-> p.type, code_name |-> p.code_name,
      content |-> p.content, battles_won |-> Str(p.battles_won),
      battles_lost |-> Str(p.battles_lost), rating |-> NumberText(p.rating) ]

\* A row whose int(...) conversions raise is logged and skipped.
RowLoads(row) ==
    IsIntText(row.battles_won) /\ IsIntText(row.battles_lost) /\ IsIntText(row.rating)

PromptOfRow(row) ==
    [ user_id |-> row.user_id, type |-> row.type, code_name |-> row.code_name,
      content |-> row.content, battles_won |-> ParseInt(row.battles_won),
      battles_lost |-> ParseInt(row.battles_lost),
      rating |-> IntRating(ParseInt(row.rating)) ]

save_prompts(ps) == [i \in 1..Len(ps) |-> PromptRow(ps[i])]

RECURSIVE load_prompts_from(_, _)
load_prompts_from(rows, acc) ==
    IF rows = << >> THEN acc
    ELSE load_prompts_from(Tail(rows),
            IF RowLoads(Head(rows))
            THEN Put(acc, PromptId, PromptOfRow(Head(rows)))
            ELSE acc)
load_prompts(rows) == load_prompts_from(rows, << >>)

HasPrompt(ps, id) == id \in Keys(ps, PromptId)
GetPrompt(ps, id) == Get(ps, PromptId, id)

create_prompt(ps, user_id, type, code_name, content) ==
    Put(ps, PromptId, Prompt(user_id, type, code_name, content))

delete_prompt(ps, id) == Del(ps, PromptId, id)

update_prompt(ps, p) == Put(ps, PromptId, p)

(***************************************************************************)
(* agent_utils/agent_utils.py: the two collaborators.  A call either       *)
(* returns a text or fails (Failed).                                       *)
(***************************************************************************)
LEAKED == << "L", "E", "A", "K", "E", "D" >>

CompletionCall(defense_prompt, attack_prompt, ret) ==
    [fn |-> "completion", system |-> defense_prompt, user |-> attack_prompt, ret |-> ret]
JudgeCall(response, secret_key, ret) ==
    [fn |-> "judge", system |-> secret_key, user |-> response, ret |-> ret]

\* The failure of the completion call turned into a reply text, as chat() does.
execute_battle_chat_swallow(attack_prompt, defense_prompt, completion) ==
    IF attack_prompt = << >> \/ defense_prompt = << >> \/ defense_prompt = None
    THEN [raise |-> "ValueError", value |-> << >>, calls |-> << >>]
    ELSE [raise |-> "none",
          value |-> IF completion = Failed THEN << "E", "r", "r", "o", "r" >> ELSE completion,
          calls |-> << CompletionCall(defense_prompt, attack_prompt, completion) >>]

\* execute_battle_chat: completion is what the model service does when called
execute_battle_chat(attack_prompt, defense_prompt, completion) ==
    IF attack_prompt = << >> \/ defense_prompt = << >> \/ defense_prompt = None
    THEN [raise |-> "ValueError", value |-> << >>, calls |-> << >>]
    ELSE [raise |-> IF completion = Failed THEN "UpstreamError" ELSE "none",
          value |-> completion,
          calls |-> << CompletionCall(defense_prompt, attack_prompt, completion) >>]

\* The failure of the judge call caught and answered with False.
evaluate_secret_leak_swallow(response, secret_key, judge) ==
    IF response = << >> \/ secret_key = << >>
    THEN [raise |-> "ValueError", value |-> FALSE, calls |-> << >>]
    ELSE [raise |-> "none",
          value |-> judge # Failed /\ Upper(Strip(judge)) = LEAKED,
          calls |-> << JudgeCall(response, secret_key, judge) >>]

\* evaluate_secret_leak: judge is what the model service does when called
evaluate_secret_leak(response, secret_key, judge) ==
    IF response = << >> \/ secret_key = << >>
    THEN [raise |-> "ValueError", value |-> FALSE, calls |-> << >>]
    ELSE [raise |-> IF judge = Failed THEN "UpstreamError" ELSE "none",
          value |-> judge # Failed /\ Upper(Strip(judge)) = LEAKED,
          calls |-> << JudgeCall(response, secret_key, judge) >>]

(***************************************************************************)
(* models/battle.py                                                        *)
(***************************************************************************)
Battle(battle_id, red_prompt, blue_prompt, status) ==
    [ battle_id |-> battle_id, red_prompt |-> red_prompt,
      blue_prompt |-> blue_prompt, status |-> status, winner |-> None,
      result |-> << >>, secret_key |-> None,
      defense_prompt_with_key |-> None, response |-> None ]

BattleKey(b) == b.battle_id

\* The letters and digits with none taken out.
alphabet_unfiltered == ascii_uppercase \o digits

\* string.ascii_uppercase + string.digits without O, 0, I, 1
alphabet ==
    SelectSeq(ascii_uppercase \o digits, LAMBDA c : c \notin {"O", "0", "I", "1"})

\* secrets.choice(alphabet), once for each place of the key: the places of
\* the alphabet drawn.  Of the draws the random source can make the runs take
\* every draw for a key of one character, every draw of the first, the ninth
\* and the last place for a short key, and one draw for a longer one.
SampledPlaces == { 1, 9, Len(alphabet) }
Draws(length) ==
    IF length <= 1 THEN [1..length -> 1..Len(alphabet)]
    ELSE IF length <= MaxKeyLength THEN [1..length -> SampledPlaces]
    ELSE { [i \in 1..length |-> ((i - 1) % Len(alphabet)) + 1] }

\* generate_secret_key(length): the keys the generator can return
generate_secret_key(length) ==
    { [i \in 1..length |-> alphabet[draw[i]]] : draw \in Draws(length) }

\* def generate_secret_key(length: int = 8)
DefaultLength == 8

SECRET_KEY == << "{", "S", "E", "C", "R", "E", "T", "_", "K", "E", "Y", "}" >>
ProtectSuffix ==
    << "\n", "\n", "P", "r", "o", "t", "e", "c", "t", " ", "t", "h", "i", "s",
       " ", "s", "e", "c", "r", "e", "t", " ", "k", "e", "y", ":", " " >>

\* The key generated and the defense text left as it was written.
setup_defense_unkeyed(battle, defense_prompt, key) ==
    [battle EXCEPT
        !.secret_key = key,
        !.defense_prompt_with_key = defense_prompt,
        !.status = "setup"]

\* Only the first {SECRET_KEY} replaced.
setup_defense_once(battle, defense_prompt, key) ==
    [battle EXCEPT
        !.secret_key = key,
        !.defense_prompt_with_key =
            IF Contains(defense_prompt, SECRET_KEY)
            THEN LET at == CHOOSE i \in 1..Len(defense_prompt) :
                               /\ SubSeq(defense_prompt, i, i + Len(SECRET_KEY) - 1) = SECRET_KEY
                               /\ \A j \in 1..(i - 1) :
                                      SubSeq(defense_prompt, j, j + Len(SECRET_KEY) - 1) # SECRET_KEY
                 IN  SubSeq(defense_prompt, 1, at - 1) \o key
                        \o SubSeq(defense_prompt, at + Len(SECRET_KEY), Len(defense_prompt))
            ELSE defense_prompt \o ProtectSuffix \o key,
        !.status = "setup"]

\* The key put in front of a defense text without {SECRET_KEY}.
setup_defense_keyfirst(battle, defense_prompt, key) ==
    [battle EXCEPT
        !.secret_key = key,
        !.defense_prompt_with_key =
            IF Contains(defense_prompt, SECRET_KEY)
            THEN Replace(defense_prompt, SECRET_KEY, key)
            ELSE key \o ProtectSuffix \o defense_prompt,
        !.status = "setup"]

\* setup_defense, with key the key the generator returned
setup_defense(battle, defense_prompt, key) ==
    [battle EXCEPT
        !.secret_key = key,
        !.defense_prompt_with_key =
            IF Contains(defense_prompt, SECRET_KEY)
            THEN Replace(defense_prompt, SECRET_KEY, key)
            ELSE defense_prompt \o ProtectSuffix \o key,
        !.status = "setup"]

separators == << ".", "-", "_", " ", ",", ";", "|", "/", "\\" >>

\* ' '.join(str(ord(c)) for c in secret_key)
AsciiPattern(secret_key) ==
    JoinTexts(<< " " >>, [i \in 1..Len(secret_key) |-> Str(Ord(secret_key[i]))])

\* Only the key as it stands looked for.
evaluate_battle_direct(secret_key, response) ==
    Contains(Upper(response), Upper(secret_key))

\* The checks of evaluate_battle_programmatic, for a secret key that is set.
evaluate_battle_programmatic(secret_key, response) ==
    LET response_upper == Upper(response)
        key_upper == Upper(secret_key)
    IN  \/ Contains(response_upper, key_upper)
        \/ Contains(response_upper, Reverse(key_upper))
        \/ \E i \in 1..Len(separators) :
              Contains(response_upper, Join(<< separators[i] >>, key_upper))
        \/ Contains(response_upper, Join(<< " " >>, key_upper))
        \/ Contains(response, AsciiPattern(secret_key))

\* The secret key never found missing.
NoSecretNever(battle) == FALSE

\* if not self.secret_key
NoSecret(battle) == battle.secret_key = None \/ battle.secret_key = << >>

\* The judge asked before the checks on the text are made.
evaluate_battle_judged(battle, response, judge) ==
    IF NoSecret(battle)
    THEN [battle |-> battle, raise |-> "ValueError", value |-> FALSE, calls |-> << >>]
    ELSE LET b1 == [battle EXCEPT !.response = response]
             llm == evaluate_secret_leak(response, b1.secret_key, judge)
         IN  [battle |-> b1, raise |-> llm.raise,
              value |-> llm.value \/ evaluate_battle_programmatic(b1.secret_key, response),
              calls |-> llm.calls]

\* evaluate_battle: the battle after the call, and what the call returns
evaluate_battle(battle, response, judge) ==
    IF NoSecret(battle)
    THEN [battle |-> battle, raise |-> "ValueError", value |-> FALSE, calls |-> << >>]
    ELSE LET b1 == [battle EXCEPT !.response = response]
         IN  IF evaluate_battle_programmatic(b1.secret_key, response)
             THEN [battle |-> b1, raise |-> "none", value |-> TRUE, calls |-> << >>]
             ELSE LET llm == evaluate_secret_leak(response, b1.secret_key, judge)
                  IN  [battle |-> b1, raise |-> llm.raise, value |-> llm.value,
                       calls |-> llm.calls]

(***************************************************************************)
(* managers/battle_manager.py: persistence                                 *)
(***************************************************************************)
\* Python truthiness of an optional text: None and '' are false
Truthy(t) == t # None /\ t # << >>

\* what csv.writer writes for a cell: None becomes the empty text
Cell(t) == IF t = None THEN << >> ELSE t

BoolText(b) == IF b THEN << "T", "r", "u", "e" >> ELSE << "F", "a", "l", "s", "e" >>

\* str(battle.result): every value of the dict rendered as text
ResultText(result) ==
    [ winner |-> result.winner, attack_wins |-> BoolText(result.attack_wins),
      secret_key |-> result.secret_key,
      rating_change |->
        [i \in 1..Len(result.rating_change) |->
            [key |-> result.rating_change[i].key,
             change |-> NumberText(FloatRating(result.rating_change[i].change))]] ]

\* the float a literal written by NumberText evaluates to
RECURSIVE FracValue(_)
FracValue(t) ==
    IF t = << >> THEN 0
    ELSE ((IndexOf(Head(t), digits) - 1) * One + FracValue(Tail(t))) \div 10

FloatOfText(t) ==
    LET neg == Head(t) = "-"
        u == IF neg THEN Tail(t) ELSE t
        dot == IndexOf(".", u)
        a == ParseInt(SubSeq(u, 1, dot - 1)) * One + FracValue(SubSeq(u, dot + 1, Len(u)))
    IN  IF neg THEN 0 - a ELSE a

\* The result read back with the two sides of attack_wins exchanged.
EvalResultInverted(text) ==
    [ winner |-> text.winner, attack_wins |-> text.attack_wins # BoolText(TRUE),
      secret_key |-> text.secret_key,
      rating_change |->
        [i \in 1..Len(text.rating_change) |->
            [key |-> text.rating_change[i].key,
             change |-> FloatOfText(text.rating_change[i].change)]] ]

\* eval(row['result'])
EvalResult(text) ==
    [ winner |-> text.winner, attack_wins |-> text.attack_wins = BoolText(TRUE),
      secret_key |-> text.secret_key,
      rating_change |->
        [i \in 1..Len(text.rating_change) |->
            [key |-> text.rating_change[i].key,
             change |-> FloatOfText(text.rating_change[i].change)]] ]

BattleRow(b) ==
    [ battle_id |-> b.battle_id, red_prompt |-> b.red_prompt,
      blue_prompt |-> b.blue_prompt, status |-> b.status,
      winner |-> Cell(b.winner),
      result |-> IF b.result # << >> THEN << ResultText(b.result[1]) >> ELSE << >>,
      secret_key |-> Cell(b.secret_key),
      defense_prompt_with_key |-> Cell(b.defense_prompt_with_key) ]

\* The row read without its secret key.
BattleOfRowBare(row) ==
    [ battle_id |-> row.battle_id, red_prompt |-> row.red_prompt,
      blue_prompt |-> row.blue_prompt, status |-> row.status,
      winner |-> row.winner,
      result |-> IF row.result # << >> THEN << EvalResult(row.result[1]) >> ELSE << >>,
      secret_key |-> None,
      defense_prompt_with_key |-> row.defense_prompt_with_key,
      response |-> None ]

\* Battle(battle_id=row['battle_id'], ...) for a row of battles.csv
BattleOfRow(row) ==
    [ battle_id |-> row.battle_id, red_prompt |-> row.red_prompt,
      blue_prompt |-> row.blue_prompt, status |-> row.status,
      winner |-> row.winner,
      result |-> IF row.result # << >> THEN << EvalResult(row.result[1]) >> ELSE << >>,
      secret_key |-> row.secret_key,
      defense_prompt_with_key |-> row.defense_prompt_with_key,
      response |-> None ]

save_battles(bs) == [i \in 1..Len(bs) |-> BattleRow(bs[i])]

RECURSIVE load_battles_from(_, _)
load_battles_from(rows, acc) ==
    IF rows = << >> THEN acc
    ELSE load_battles_from(Tail(rows), Put(acc, BattleKey, BattleOfRow(Head(rows))))
\* Only the rows of completed battles loaded.
load_battles_completed(rows) ==
    load_battles_from(SelectSeq(rows, LAMBDA row : row.status = "completed"), << >>)

load_battles(rows) == load_battles_from(rows, << >>)

HasBattle(bs, id) == id \in Keys(bs, BattleKey)
GetBattle(bs, id) == Get(bs, BattleKey, id)

(***************************************************************************)
(* managers/battle_manager.py: matchmaking                                 *)
(***************************************************************************)
\* Every record at the same distance.
RatingDistanceNone(x, prompt) == 0

\* abs(x.rating - prompt.rating)
RatingDistance(x, prompt) == Abs(FSub(x.rating.n, prompt.rating.n))

\* sorted(...) of a list of entries [key, item]: stable, each entry is
\* inserted after the entries whose key is not larger
RECURSIVE Sorted(_)
Sorted(es) ==
    IF es = << >> THEN << >>
    ELSE LET rest == Sorted(SubSeq(es, 1, Len(es) - 1))
             x == es[Len(es)]
             n == Cardinality({ i \in 1..Len(rest) : rest[i].key <= x.key })
         IN  SubSeq(rest, 1, n) \o << x >> \o SubSeq(rest, n + 1, Len(rest))

OpponentType(prompt) == IF prompt.type = "attack" THEN "defense" ELSE "attack"

\* potential_opponents: the records of the opposite type, in the order of
\* the dict, the prompt itself left out
PotentialOpponents(ps, prompt_id) ==
    IF ~HasPrompt(ps, prompt_id) THEN << >>
    ELSE SelectSeq(ps, LAMBDA p : p.type = OpponentType(GetPrompt(ps, prompt_id))
                                  /\ PromptId(p) # prompt_id)

\* find_matching_opponents for a prompt id that is in the store
find_matching_opponents(ps, prompt_id, num_opponents) ==
    LET prompt == GetPrompt(ps, prompt_id)
        potential_opponents == PotentialOpponents(ps, prompt_id)
        sorted_opponents ==
            Sorted([i \in 1..Len(potential_opponents) |->
                       [key |-> RatingDistance(potential_opponents[i], prompt),
                        item |-> potential_opponents[i]]])
        n == IF num_opponents < Len(sorted_opponents)
             THEN num_opponents ELSE Len(sorted_opponents)
    IN  [i \in 1..n |-> PromptId(sorted_opponents[i].item)]

(***************************************************************************)
(* managers/battle_manager.py: start_battle                                *)
(***************************************************************************)
\* What an operation of the battle manager leaves behind: the exception it
\* raised ("none" when it returned), the two dicts, the collaborator calls
\* it made and whether it applied battle results to the records.
Outcome(raise, msg, status, ps, bs, calls, didApply) ==
    [ raise |-> raise, msg |-> msg, status |-> status, prompts |-> ps,
      battles |-> bs, calls |-> calls, applied |-> didApply ]

\* The sides as they were given.
RolesAsGiven(red_prompt, blue_prompt) == [red |-> red_prompt, blue |-> blue_prompt]

\* The attack and defense sides of a pair of prompts of different types.
Roles(red_prompt, blue_prompt) ==
    IF red_prompt.type # "attack"
    THEN [red |-> blue_prompt, blue |-> red_prompt]
    ELSE [red |-> red_prompt, blue |-> blue_prompt]

\* The types never found equal.
SameTypeNever(red_prompt, blue_prompt) == FALSE

\* if red_prompt.type == blue_prompt.type: raise
SameType(red_prompt, blue_prompt) == red_prompt.type = blue_prompt.type

\* Every battle named battle_0.
NextBattleIdZero(bs) == 0

\* battle_id = f"battle_{len(self.battles)}"
NextBattleId(bs) == Len(bs)

\* start_battle with key the secret key the generator returns; bdisk tells
\* whether battles.csv can be written.
start_battle(ps, bs, red_prompt_id, blue_prompt_id, key, bdisk) ==
    IF ~HasPrompt(ps, red_prompt_id)
    THEN Outcome("ValueError", "Invalid red prompt ID", "-", ps, bs, << >>, FALSE)
    ELSE
    LET auto == ~Truthy(blue_prompt_id)
        matching_opponents ==
            IF auto THEN find_matching_opponents(ps, red_prompt_id, 1) ELSE << >>
    IN
    IF auto /\ matching_opponents = << >>
    THEN Outcome("ValueError", "No prompts available for battle", "-", ps, bs, << >>, FALSE)
    ELSE
    LET blue_id == IF auto THEN matching_opponents[1] ELSE blue_prompt_id IN
    IF ~HasPrompt(ps, blue_id)
    THEN Outcome("ValueError", "Invalid blue prompt ID", "-", ps, bs, << >>, FALSE)
    ELSE
    LET red_prompt == GetPrompt(ps, red_prompt_id)
        blue_prompt == GetPrompt(ps, blue_id)
    IN
    IF SameType(red_prompt, blue_prompt)
    THEN Outcome("ValueError", "Prompts must be of different types", "-", ps, bs, << >>, FALSE)
    ELSE
    LET roles == Roles(red_prompt, blue_prompt)
        battle == setup_defense(
                     Battle(NextBattleId(bs), PromptId(roles.red), PromptId(roles.blue), "setup"),
                     roles.blue.content, key)
        bs1 == Put(bs, BattleKey, battle)
    IN  Outcome(IF bdisk THEN "none" ELSE "StorageError", "-", "-", ps, bs1, << >>, FALSE)

(***************************************************************************)
(* managers/battle_manager.py: _update_battle_results                      *)
(***************************************************************************)
k_factor == 32

\* The rating difference taken the other way round.
red_expected_swapped(red_rating, blue_rating) ==
    FRecip(FAdd(One, Pow10(FDivInt(FSub(red_rating.n, blue_rating.n), 400))))

\* red_expected = 1 / (1 + 10**((blue_prompt.rating - red_prompt.rating)/400))
red_expected(red_rating, blue_rating) ==
    FRecip(FAdd(One, Pow10(FDivInt(FSub(blue_rating.n, red_rating.n), 400))))

\* The score of the other side.
red_actual_swapped(attack_wins) == IF attack_wins THEN 0 ELSE 1

\* red_actual = 1 if attack_wins else 0
red_actual(attack_wins) == IF attack_wins THEN 1 ELSE 0

\* k_factor * (red_actual - red_expected)
RedChange(actual, expected) == FMulInt(k_factor, FSub(FromInt(actual), expected))

\* k_factor * ((1-red_actual) - (1-red_expected))
BlueChange(actual, expected) ==
    FMulInt(k_factor, FSub(FromInt(1 - actual), FSub(One, expected)))

\* rating += change
AddRating(rating, change) == FloatRating(FAdd(rating.n, change))

Won(p) == [p EXCEPT !.battles_won = @ + 1]
\* The loss not counted.
LostUncounted(p) == p
Lost(p) == [p EXCEPT !.battles_lost = @ + 1]

\* The result with the rating change of the attack side only.
ResultOfRed(battle, attack_wins, red_change, blue_change) ==
    [ winner |-> battle.winner, attack_wins |-> attack_wins,
      secret_key |-> battle.secret_key,
      rating_change |-> << [key |-> battle.red_prompt, change |-> red_change] >> ]

\* battle.result
Result(battle, attack_wins, red_change, blue_change) ==
    [ winner |-> battle.winner, attack_wins |-> attack_wins,
      secret_key |-> battle.secret_key,
      rating_change |->
        Put(Put(<< >>, LAMBDA e : e.key, [key |-> battle.red_prompt, change |-> red_change]),
            LAMBDA e : e.key, [key |-> battle.blue_prompt, change |-> blue_change]) ]

\* The records and the battle after _update_battle_results; both records
\* are in the store.
update_battle_results(ps, battle, attack_wins) ==
    LET red_prompt == GetPrompt(ps, battle.red_prompt)
        blue_prompt == GetPrompt(ps, battle.blue_prompt)
        red1 == IF attack_wins THEN Won(red_prompt) ELSE Lost(red_prompt)
        blue1 == IF attack_wins THEN Lost(blue_prompt) ELSE Won(blue_prompt)
        expected == red_expected(red_prompt.rating, blue_prompt.rating)
        actual == red_actual(attack_wins)
        red2 == [red1 EXCEPT !.rating = AddRating(@, RedChange(actual, expected))]
        blue2 == [blue1 EXCEPT !.rating = AddRating(@, BlueChange(actual, expected))]
    IN  [ prompts |-> update_prompt(update_prompt(ps, red2), blue2),
          battle |-> [battle EXCEPT
                        !.result = << Result(battle, attack_wins,
                                             RedChange(actual, expected),
                                             BlueChange(actual, expected)) >>,
                        !.status = "completed"] ]

(***************************************************************************)
(* managers/battle_manager.py: execute_battle                              *)
(***************************************************************************)
\* The status check left out.
InSetupAlways(battle) == TRUE

\* A battle that already holds a response rejected as well.
InSetupUntried(battle) == battle.status = "setup" /\ battle.response = None

\* if battle.status != "setup": raise
InSetup(battle) == battle.status = "setup"

\* The defense text as the record holds it.
DefenseTextRaw(battle, blue_prompt) == blue_prompt.content

\* defense_prompt=battle.defense_prompt_with_key
DefenseText(battle, blue_prompt) == battle.defense_prompt_with_key

\* The two sides of the conditional exchanged.
WinnerSwapped(battle, attack_wins) ==
    IF attack_wins THEN battle.blue_prompt ELSE battle.red_prompt

\* battle.winner = battle.red_prompt if attack_wins else battle.blue_prompt
Winner(battle, attack_wins) ==
    IF attack_wins THEN battle.red_prompt ELSE battle.blue_prompt

\* execute_battle; completion and judge are what the model service does when
\* it is called, bdisk tells whether battles.csv can be written.  The battle
\* object is mutated in place, so what evaluate_battle assigned stays in the
\* dict when a later step raises.
execute_battle(ps, bs, battle_id, completion, judge, bdisk) ==
    IF ~HasBattle(bs, battle_id)
    THEN Outcome("ValueError", "Invalid battle ID", "-", ps, bs, << >>, FALSE)
    ELSE
    LET battle == GetBattle(bs, battle_id) IN
    IF ~InSetup(battle)
    THEN Outcome("ValueError", "not in setup phase", battle.status, ps, bs, << >>, FALSE)
    ELSE IF ~HasPrompt(ps, battle.red_prompt)
    THEN Outcome("ValueError", "Red prompt not found", "-", ps, bs, << >>, FALSE)
    ELSE IF ~HasPrompt(ps, battle.blue_prompt)
    THEN Outcome("ValueError", "Blue prompt not found", "-", ps, bs, << >>, FALSE)
    ELSE
    LET red_prompt == GetPrompt(ps, battle.red_prompt)
        blue_prompt == GetPrompt(ps, battle.blue_prompt)
        chat == execute_battle_chat(red_prompt.content,
                                    DefenseText(battle, blue_prompt), completion)
    IN
    IF chat.raise # "none"
    THEN Outcome(chat.raise, "execute_battle_chat", "-", ps, bs, chat.calls, FALSE)
    ELSE
    LET eval == evaluate_battle(battle, chat.value, judge)
        calls == chat.calls \o eval.calls
    IN
    IF eval.raise # "none"
    THEN Outcome(eval.raise, "evaluate_battle", "-", ps,
                 Put(bs, BattleKey, eval.battle), calls, FALSE)
    ELSE
    LET attack_wins == eval.value
        b2 == [eval.battle EXCEPT !.winner = Winner(eval.battle, attack_wins),
                                  !.status = "completed"]
        upd == update_battle_results(ps, b2, attack_wins)
        bs1 == Put(bs, BattleKey, upd.battle)
    IN  Outcome(IF bdisk THEN "none" ELSE "StorageError", "-", "-",
                upd.prompts, bs1, calls, TRUE)

\* The first battle of the store returned whatever id is asked for.
get_battle_status_first(bs, battle_id) ==
    IF bs # << >> THEN << bs[1] >> ELSE << >>

\* get_battle_status
get_battle_status(bs, battle_id) ==
    IF HasBattle(bs, battle_id) THEN << GetBattle(bs, battle_id) >> ELSE << >>

(***************************************************************************)
(* Inputs of the commands and answers of the model service.                *)
(***************************************************************************)
PromptKeys ==
    { << "u1", "attack", "x" >>, << "u1", "defense", "x" >>, << "u2", "defense", "y" >> }

Template == << "#" >> \o SECRET_KEY
\* what /create is called with: the attack text, a defense with the marker,
\* a defense without it
PromptInputs ==
    { << << "u1", "attack", "x" >>, << "g", "o" >> >>,
      << << "u1", "defense", "x" >>, Template >>,
      << << "u2", "defense", "y" >>, << >> >> }

Responses ==
    { << >>, << "n", "o" >>, << "a", "b", "c", "d", "e", "f", "g", "h" >> }

JudgeAnswers ==
    { << " ", "l", "e", "a", "k", "e", "d", "\n" >>, << "S", "A", "F", "E" >> }

BattleIds == 0..(MaxBattles + MaxSeries)

(***************************************************************************)
(* Init: both managers constructed on a fresh data directory.              *)
(***************************************************************************)
Last(op, arg, out) ==
    [ op |-> op, arg |-> arg, raise |-> out.raise, msg |-> out.msg,
      status |-> out.status, calls |-> out.calls, seen |-> "-", value |-> << >> ]

Quiet(ps, bs) == Outcome("none", "-", "-", ps, bs, << >>, FALSE)

Init ==
    /\ prompts = << >>
    /\ battles = << >>
    /\ prompts_csv = << >>
    /\ battles_csv = << >>
    /\ pending = << >>
    /\ last = Last("idle", << >>, Quiet(<< >>, << >>))
    /\ applied = [b \in BattleIds |-> 0]
    /\ failed = [b \in BattleIds |-> FALSE]
    /\ restarts = 0

(***************************************************************************)
(* The commands of bot.py.  pdisk and bdisk tell whether prompts.csv and   *)
(* battles.csv can be written while the command runs.                      *)
(***************************************************************************)
\* /create, /prompt create
CreatePrompt(key, content, pdisk) ==
    /\ prompts' = create_prompt(prompts, key[1], key[2], key[3], content)
    /\ prompts_csv' = IF pdisk THEN save_prompts(prompts') ELSE prompts_csv
    /\ last' = Last("create_prompt", << >>, Quiet(prompts', battles))
    /\ UNCHANGED << battles, battles_csv, pending, applied, failed, restarts >>

\* The battles of a deleted record removed with it.
DeletePromptCascading(key, pdisk) ==
    /\ prompts' = IF HasPrompt(prompts, key) THEN delete_prompt(prompts, key) ELSE prompts
    /\ prompts_csv' =
         IF HasPrompt(prompts, key) /\ pdisk THEN save_prompts(prompts') ELSE prompts_csv
    /\ battles' = SelectSeq(battles, LAMBDA b : key \notin { b.red_prompt, b.blue_prompt })
    /\ last' = Last("delete_prompt", << >>,
                    Outcome("none", IF HasPrompt(prompts, key) THEN "True" ELSE "False",
                            "-", prompts', battles', << >>, FALSE))
    /\ UNCHANGED << battles_csv, pending, applied, failed, restarts >>

\* /prompt delete
DeletePrompt(key, pdisk) ==
    /\ prompts' = IF HasPrompt(prompts, key) THEN delete_prompt(prompts, key) ELSE prompts
    /\ prompts_csv' =
         IF HasPrompt(prompts, key) /\ pdisk THEN save_prompts(prompts') ELSE prompts_csv
    /\ last' = Last("delete_prompt", << >>,
                    Outcome("none", IF HasPrompt(prompts, key) THEN "True" ELSE "False",
                            "-", prompts', battles, << >>, FALSE))
    /\ UNCHANGED << battles, battles_csv, pending, applied, failed, restarts >>

\* /battle
StartBattle(red_prompt_id, blue_prompt_id, key, bdisk) ==
    /\ \E out \in {start_battle(prompts, battles, red_prompt_id, blue_prompt_id, key, bdisk)} :
           /\ battles' = out.battles
           /\ battles_csv' =
                IF bdisk /\ out.battles # battles THEN save_battles(out.battles)
                ELSE battles_csv
           /\ last' = [Last("start_battle", << red_prompt_id, blue_prompt_id >>, out)
                          EXCEPT !.msg = "-"]
    /\ UNCHANGED << prompts, prompts_csv, pending, applied, failed, restarts >>

\* The body of /execute: runs to its end without yielding to the event loop.
\* seen is the status the battle had when the command was received.
Execute(battle_id, seen, completion, judge, pdisk, bdisk) ==
    \E out \in {execute_battle(prompts, battles, battle_id, completion, judge, bdisk)} :
        /\ prompts' = out.prompts
        /\ battles' = out.battles
        /\ prompts_csv' =
             IF out.applied /\ pdisk THEN save_prompts(out.prompts) ELSE prompts_csv
        /\ battles_csv' =
             IF out.applied /\ bdisk THEN save_battles(out.battles) ELSE battles_csv
        /\ last' = [Last("execute_battle", battle_id, out) EXCEPT !.seen = seen]
        /\ applied' = IF out.applied
                      THEN [applied EXCEPT ![battle_id] = @ + 1] ELSE applied
        /\ failed' = IF out.raise = "UpstreamError"
                     THEN [failed EXCEPT ![battle_id] = TRUE] ELSE failed
        /\ UNCHANGED restarts

\* The status of the battle with this id, "None" when there is none.
StatusOf(bs, battle_id) ==
    IF HasBattle(bs, battle_id) THEN GetBattle(bs, battle_id).status ELSE "None"

\* /execute handled at once
ExecuteBattle(battle_id, completion, judge, pdisk, bdisk) ==
    /\ pending = << >>
    /\ Execute(battle_id, "-", completion, judge, pdisk, bdisk)
    /\ UNCHANGED pending

\* /execute received: its task waits in the event loop
Invoke(battle_id) ==
    /\ pending' = Append(pending, [battle_id |-> battle_id, seen |-> StatusOf(battles, battle_id)])
    /\ last' = Last("invoke", battle_id, Quiet(prompts, battles))
    /\ UNCHANGED << prompts, battles, prompts_csv, battles_csv, applied, failed,
                    restarts >>

\* the event loop runs the oldest waiting /execute
Run(completion, judge, pdisk, bdisk) ==
    /\ pending # << >>
    /\ Execute(Head(pending).battle_id, Head(pending).seen, completion, judge, pdisk, bdisk)
    /\ pending' = Tail(pending)

\* /status
GetBattleStatus(battle_id) ==
    /\ last' = [Last("get_battle_status", battle_id,
                     Outcome("none",
                             IF get_battle_status(battles, battle_id) # << >>
                             THEN "found" ELSE "None", "-",
                             prompts, battles, << >>, FALSE))
                 EXCEPT !.value = get_battle_status(battles, battle_id)]
    /\ UNCHANGED << prompts, battles, prompts_csv, battles_csv, pending, applied, failed, restarts >>

\* find_matching_opponents called from outside start_battle.
FindOpponents(prompt_id, num_opponents) ==
    /\ last' = [Last("find_matching_opponents", << prompt_id, num_opponents >>,
                      Outcome(IF ~HasPrompt(prompts, prompt_id)
                                 \/ PotentialOpponents(prompts, prompt_id) = << >>
                              THEN "ValueError" ELSE "none",
                              "-", "-", prompts, battles, << >>, FALSE))
                 EXCEPT !.value =
                    IF HasPrompt(prompts, prompt_id)
                    THEN find_matching_opponents(prompts, prompt_id, num_opponents)
                    ELSE << >>]
    /\ UNCHANGED << prompts, battles, prompts_csv, battles_csv, pending, applied, failed, restarts >>

\* The process stops and starts again: both managers load their files.
Restart ==
    /\ restarts' = restarts + 1
    /\ prompts' = load_prompts(prompts_csv)
    /\ battles' = load_battles(battles_csv)
    /\ pending' = << >>
    /\ last' = Last("restart", << >>, Quiet(prompts', battles'))
    /\ UNCHANGED << prompts_csv, battles_csv, applied, failed >>

(***************************************************************************)
(* Spec: the commands one after another, the files always writable.        *)
(***************************************************************************)
\* bot.py: the handler awaits interaction.response.send_message after the
\* manager call, which changes nothing in the managers.  A command is taken
\* up when the reply to the one before it is out.
Idle == Last("idle", << >>, Quiet(<< >>, << >>))

Reply ==
    /\ last.op # Idle.op
    /\ last' = Idle
    /\ UNCHANGED << prompts, battles, prompts_csv, battles_csv, pending, applied, failed, restarts >>

NewPrompt(inputs) == \E inp \in inputs : CreatePrompt(inp[1], inp[2], TRUE)

RemovePrompt(keys) == \E key \in keys : DeletePrompt(key, TRUE)

NewBattle(cap, reds, blues) ==
    /\ Len(battles) < cap
    /\ \E red \in reds, blue \in blues,
          key \in generate_secret_key(DefaultLength) : StartBattle(red, blue, key, TRUE)

ExecuteNow(completions, judges) ==
    \E b \in 0..Len(battles), completion \in completions, judge \in judges :
        ExecuteBattle(b, completion, judge, TRUE, TRUE)

Status == \E b \in 0..Len(battles) : GetBattleStatus(b)

Next ==
    \/ /\ last.op = Idle.op
       /\ \/ NewPrompt(PromptInputs)
          \/ RemovePrompt(PromptKeys)
          \/ NewBattle(MaxBattles, PromptKeys, PromptKeys \cup {None})
          \/ ExecuteNow(Responses \cup {Failed}, JudgeAnswers \cup {Failed})
          \/ Status
    \/ Reply

Spec == Init /\ [][Next]_vars

(***************************************************************************)
(* SpecSeries: several battles in a row between one attack and one         *)
(* defense; the model service answers with a text that does not hold the   *)
(* key and the judge decides.                                              *)
(***************************************************************************)
SeriesKeys == { << "u1", "attack", "x" >>, << "u1", "defense", "x" >> }
SeriesInputs == { inp \in PromptInputs : inp[1] \in SeriesKeys }

NextSeries ==
    \/ /\ last.op = Idle.op
       /\ \/ NewPrompt(SeriesInputs)
          \/ RemovePrompt(SeriesKeys)
          \/ NewBattle(MaxSeries, SeriesKeys, SeriesKeys)
          \/ ExecuteNow({ << "n", "o" >> }, JudgeAnswers)
          \/ Status
    \/ Reply

SpecSeries == Init /\ [][NextSeries]_vars

(***************************************************************************)
(* SpecBattle: one Battle object on its own, from the constructor on.      *)
(* The object is kept as the only entry of battles.                        *)
(***************************************************************************)
\* Battle(battle_id=..., red_prompt=..., blue_prompt=..., status="setup"),
\* the secret key left unset or given as the empty text
Construct(secret_key) ==
    /\ battles = << >>
    /\ battles' = << [Battle(0, << "u1", "attack", "x" >>, << "u1", "defense", "x" >>, "setup")
                         EXCEPT !.secret_key = secret_key] >>
    /\ last' = Last("Battle", secret_key, Quiet(prompts, battles'))
    /\ UNCHANGED << prompts, prompts_csv, battles_csv, pending, applied, failed, restarts >>

\* Battle.generate_secret_key(length)
GenerateSecretKey(length) ==
    /\ \E key \in generate_secret_key(length) :
          last' = [Last("generate_secret_key", length, Quiet(prompts, battles))
                      EXCEPT !.value = key]
    /\ UNCHANGED << prompts, battles, prompts_csv, battles_csv, pending, applied, failed, restarts >>

\* battle.setup_defense(defense_prompt)
SetupDefense(defense_prompt) ==
    /\ battles # << >>
    /\ \E key \in generate_secret_key(DefaultLength) :
          /\ battles' = << setup_defense(battles[1], defense_prompt, key) >>
          /\ last' = [Last("setup_defense", defense_prompt, Quiet(prompts, battles'))
                         EXCEPT !.value = battles'[1].defense_prompt_with_key]
    /\ UNCHANGED << prompts, prompts_csv, battles_csv, pending, applied, failed, restarts >>

\* What a call that returns a bool leaves in msg.
Returned(out) == IF out.raise # "none" THEN "-" ELSE IF out.value THEN "True" ELSE "False"

\* battle.evaluate_battle(response), the judge answering with judge if asked
EvaluateBattle(response, judge) ==
    /\ battles # << >>
    /\ \E out \in { evaluate_battle(battles[1], response, judge) } :
          /\ battles' = << out.battle >>
          /\ last' = Last("evaluate_battle", << response, judge >>,
                          Outcome(out.raise, Returned(out), "-", prompts, battles',
                                  out.calls, FALSE))
    /\ UNCHANGED << prompts, prompts_csv, battles_csv, pending, applied, failed, restarts >>

\* battle.evaluate_battle_programmatic(response)
EvaluateBattleProgrammatic(response) ==
    /\ battles # << >>
    /\ \E out \in { IF NoSecret(battles[1])
                     THEN [battle |-> battles[1], raise |-> "ValueError", value |-> FALSE]
                     ELSE [battle |-> [battles[1] EXCEPT !.response = response],
                           raise |-> "none",
                           value |-> evaluate_battle_programmatic(battles[1].secret_key,
                                                                  response)] } :
          /\ battles' = << out.battle >>
          /\ last' = Last("evaluate_battle_programmatic", << response, Failed >>,
                          Outcome(out.raise, Returned(out), "-", prompts, battles',
                                  << >>, FALSE))
    /\ UNCHANGED << prompts, prompts_csv, battles_csv, pending, applied, failed, restarts >>

\* The defense prompts setup_defense is called with: without the marker,
\* with it once, twice, twice in a row, inside braces, and cut short.
DefenseTexts ==
    { << >>, << "a" >>, SECRET_KEY, << "a" >> \o SECRET_KEY \o << "b" >> \o SECRET_KEY,
      SECRET_KEY \o SECRET_KEY, << "{" >> \o SECRET_KEY \o << "}" >>,
      SubSeq(SECRET_KEY, 1, Len(SECRET_KEY) - 1),
      SubSeq(SECRET_KEY, 1, 2) \o SECRET_KEY \o << "\n" >> }

\* The responses the detector is given for a key: texts that hold the key in
\* one of the forms the checks look for, texts that come close, and others.
LowerChar(c) ==
    IF c \in Chars(ascii_uppercase, 1)
    THEN ascii_lowercase[IndexOf(c, ascii_uppercase)] ELSE c
Lower(t) == [i \in 1..Len(t) |-> LowerChar(t[i])]
ResponseTexts(key) ==
    { << >>, << "n", "o" >>, key, << "(" >> \o Lower(key) \o << ")" >>,
      << "x" >> \o Lower(Reverse(key)),
      AsciiPattern(key) \o << "!" >>,
      AsciiPattern(Lower(key)),
      Join(<< ",", " " >>, key),
      SubSeq(key, 1, Len(key) - 1),
      Join(<< "." >>, SubSeq(key, 1, 4)) \o << "-" >> \o Join(<< "." >>, SubSeq(key, 5, Len(key))) }
    \cup { << "k", ":" >> \o Join(<< separators[i] >>, Lower(key)) : i \in 1..Len(separators) }

\* The answers of the judge.
JudgeTexts == JudgeAnswers \cup { LEAKED \o << "." >>, << >> }

NextBattle ==
    \/ /\ last.op = Idle.op
       /\ \/ \E secret_key \in { None, << >> } : Construct(secret_key)
          \/ \E length \in 0..MaxKeyLength : GenerateSecretKey(length)
          \/ \E defense_prompt \in DefenseTexts : SetupDefense(defense_prompt)
          \/ \E key \in generate_secret_key(DefaultLength) :
                \E response \in ResponseTexts(key), judge \in JudgeTexts \cup {Failed} :
                    EvaluateBattle(response, judge)
          \/ \E key \in generate_secret_key(DefaultLength) :
                \E response \in ResponseTexts(key) : EvaluateBattleProgrammatic(response)
    \/ Reply

SpecBattle == Init /\ [][NextBattle]_vars

(***************************************************************************)
(* SpecMatch: one attack and two defenses, battles against the opponent    *)
(* the manager picks, and the list of opponents or a secret key asked for  *)
(* in between.                                                             *)
(***************************************************************************)
FindNow == \E prompt_id \in PromptKeys, num_opponents \in 0..MaxCount :
               FindOpponents(prompt_id, num_opponents)

NextMatch ==
    \/ /\ last.op = Idle.op
       /\ \/ NewPrompt({ inp \in PromptInputs : ~HasPrompt(prompts, inp[1]) })
          \/ NewBattle(MaxSeries, PromptKeys, {None})
          \/ ExecuteNow({ << "n", "o" >> }, JudgeAnswers)
          \/ FindNow
          \/ \E length \in (0..MaxKeyLength) \cup {DefaultLength} : GenerateSecretKey(length)
    \/ Reply

SpecMatch == Init /\ [][NextMatch]_vars

(***************************************************************************)
(* SpecRestart: as SpecSeries, and the process may stop and start again.   *)
(***************************************************************************)
NextRestart ==
    \/ NextSeries
    \/ last.op = Idle.op /\ restarts < MaxRestarts /\ Restart

SpecRestart == Init /\ [][NextRestart]_vars

(***************************************************************************)
(* SpecFrame: battles between one attack and one defense, the model        *)
(* service failing at times, and the process restarted in between.         *)
(***************************************************************************)
NextFrame ==
    \/ /\ last.op = Idle.op
       /\ \/ NewPrompt(SeriesInputs)
          \/ NewBattle(MaxBattles, SeriesKeys, SeriesKeys)
          \/ ExecuteNow({ << "n", "o" >>, Failed }, JudgeAnswers \cup {Failed})
          \/ restarts < MaxRestarts /\ Restart
    \/ Reply

SpecFrame == Init /\ [][NextFrame]_vars

(***************************************************************************)
(* SpecLedger: every record created once and never deleted, battles        *)
(* between them, and the process restarted in between.                     *)
(***************************************************************************)
\* The ids the battles of the store name.
Fighters == UNION { { battles[i].red_prompt, battles[i].blue_prompt } : i \in 1..Len(battles) }

NextLedger ==
    \/ /\ last.op = Idle.op
       /\ \/ NewPrompt({ inp \in PromptInputs :
                            ~HasPrompt(prompts, inp[1]) /\ inp[1] \notin Fighters })
          \/ NewBattle(MaxSeries, PromptKeys, {None})
          \/ ExecuteNow({ << "n", "o" >> }, JudgeAnswers)
          \/ restarts < MaxRestarts /\ Restart
    \/ Reply

SpecLedger == Init /\ [][NextLedger]_vars

(***************************************************************************)
(* SpecKinds: /create takes the type as free text; one of the records is   *)
(* created with the type written "Attack".                                 *)
(***************************************************************************)
KindKeys ==
    { << "u1", "attack", "x" >>, << "u1", "defense", "x" >>, << "u2", "Attack", "z" >> }
KindInputs ==
    { << << "u1", "attack", "x" >>, << "g", "o" >> >>,
      << << "u1", "defense", "x" >>, Template >>,
      << << "u2", "Attack", "z" >>, << "h", "i" >> >> }

NextKinds ==
    \/ /\ last.op = Idle.op
       /\ \/ NewPrompt(KindInputs)
          \/ RemovePrompt(KindKeys)
          \/ NewBattle(MaxBattles, KindKeys, KindKeys \cup {None})
          \/ ExecuteNow({ << "n", "o" >> }, JudgeAnswers)
    \/ Reply

SpecKinds == Init /\ [][NextKinds]_vars

(***************************************************************************)
(* SpecRetry: the model service may fail; /execute is given again for      *)
(* every stored battle, and the service answers it again and again.  No    *)
(* record is deleted.                                                      *)
(***************************************************************************)
Answered(b) ==
    /\ last.op = Idle.op
    /\ HasBattle(battles, b)
    /\ \E judge \in JudgeAnswers : ExecuteBattle(b, << "n", "o" >>, judge, TRUE, TRUE)

NextRetry ==
    \/ /\ last.op = Idle.op
       /\ \/ NewPrompt(SeriesInputs)
          \/ NewBattle(MaxBattles, SeriesKeys, SeriesKeys)
          \/ ExecuteNow({ << "n", "o" >>, Failed }, JudgeAnswers \cup {Failed})
    \/ Reply

\* Strong fairness of Answered(b), with ENABLED <<Answered(b)>>_vars written
\* out: the step changes last, so it is enabled exactly when the bot is idle
\* and the battle is stored.
AnsweredAgain(b) ==
    \/ <>[]~(last.op = Idle.op /\ HasBattle(battles, b))
    \/ []<><<Answered(b)>>_vars

SpecRetry ==
    /\ Init
    /\ [][NextRetry]_vars
    /\ WF_vars(Reply)
    /\ \A b \in BattleIds : AnsweredAgain(b)

(***************************************************************************)
(* SpecDisk: while a command runs, data/prompts.csv or data/battles.csv    *)
(* may be unwritable.                                                      *)
(***************************************************************************)
NextDisk ==
    \/ /\ last.op = Idle.op
       /\ \/ \E inp \in SeriesInputs, pdisk \in BOOLEAN : CreatePrompt(inp[1], inp[2], pdisk)
          \/ /\ Len(battles) < MaxBattles
             /\ \E red \in SeriesKeys, blue \in SeriesKeys, bdisk \in BOOLEAN,
                   key \in generate_secret_key(DefaultLength) :
                      StartBattle(red, blue, key, bdisk)
          \/ \E b \in 0..Len(battles), judge \in JudgeAnswers,
                pdisk \in BOOLEAN, bdisk \in BOOLEAN :
                   ExecuteBattle(b, << "n", "o" >>, judge, pdisk, bdisk)
    \/ Reply

SpecDisk == Init /\ [][NextDisk]_vars

(***************************************************************************)
(* SpecLoop: /execute commands wait in the event loop before they run.     *)
(***************************************************************************)
NextLoop ==
    \/ /\ last.op = Idle.op
       /\ \/ NewPrompt(SeriesInputs)
          \/ RemovePrompt(SeriesKeys)
          \/ NewBattle(MaxBattles, SeriesKeys, SeriesKeys)
          \/ Len(pending) < MaxPending /\ \E b \in 0..Len(battles) : Invoke(b)
          \/ \E completion \in Responses \cup {Failed}, judge \in JudgeAnswers \cup {Failed} :
                Run(completion, judge, TRUE, TRUE)
    \/ Reply

SpecLoop == Init /\ [][NextLoop]_vars

(***************************************************************************)
(* Properties.  A step of execute_battle is a step whose last' names it;   *)
(* last'.arg is the battle id it was called with.                          *)
(***************************************************************************)
ExecuteStep == last'.op = "execute_battle"
Returns == ExecuteStep /\ last'.raise = "none"

NoWinner(b) == ~Truthy(b.winner)
Counters(p) == << p.battles_won, p.battles_lost >>
Untouched(b) == b.status = "setup" /\ NoWinner(b) /\ b.result = << >>

CalledAndFailed(l, fn) ==
    \E i \in 1..Len(l.calls) : l.calls[i].fn = fn /\ l.calls[i].ret = Failed

\* C1: execute_battle on a battle whose status is completed raises an error
\* that carries the status "completed", and leaves the battle (winner and
\* result included) and every record's rating and counters as they were.
C1_CompletedIsRejected ==
    [][ (ExecuteStep /\ StatusOf(battles, last'.arg) = "completed")
        => /\ last'.raise = "ValueError"
           /\ last'.status = "completed"
           /\ battles' = battles
           /\ prompts' = prompts
           /\ applied' = applied ]_vars

C1_Witness ==
    /\ last.op = "execute_battle"
    /\ last.raise = "ValueError"
    /\ last.status = "completed"
    /\ StatusOf(battles, last.arg) = "completed"

\* C2: when the completion call fails, execute_battle raises and updates
\* nothing: the battle stays in setup without winner and result, and no
\* record changes.
C2_CompletionFailureAborts ==
    [][ (ExecuteStep /\ CalledAndFailed(last', "completion"))
        => /\ last'.raise = "UpstreamError"
           /\ battles' = battles
           /\ prompts' = prompts
           /\ applied' = applied
           /\ Untouched(GetBattle(battles', last'.arg)) ]_vars

C2_Witness ==
    /\ last.op = "execute_battle"
    /\ CalledAndFailed(last, "completion")
    /\ StatusOf(battles, last.arg) = "setup"

\* C3: a battle in setup has no response, no winner and no result.
C3_SetupHasNoResponse ==
    \A i \in 1..Len(battles) :
        battles[i].status = "setup"
        => battles[i].response = None /\ NoWinner(battles[i]) /\ battles[i].result = << >>

\* C4: when the judge call fails, execute_battle raises; the defender is not
\* made the winner, no rating or counter changes and the battle stays in
\* setup.
C4_JudgeFailurePropagates ==
    [][ (ExecuteStep /\ CalledAndFailed(last', "judge"))
        => /\ last'.raise = "UpstreamError"
           /\ prompts' = prompts
           /\ applied' = applied
           /\ Untouched(GetBattle(battles', last'.arg)) ]_vars

C4_Witness ==
    /\ last.op = "execute_battle"
    /\ CalledAndFailed(last, "judge")
    /\ StatusOf(battles, last.arg) = "setup"

\* C5: the results of a battle are applied at most once, however many
\* /execute commands for it wait in the event loop; a command that was
\* received while the battle was in setup and runs after another one
\* completed it is rejected and changes no record.
C5_AppliedAtMostOnce ==
    /\ \A b \in DOMAIN applied : applied[b] <= 1
    /\ (last.op = "execute_battle" /\ last.raise = "none") => applied[last.arg] = 1

C5_Witness ==
    /\ last.op = "execute_battle"
    /\ last.seen = "setup"
    /\ last.raise = "ValueError"
    /\ last.status = "completed"
    /\ applied[last.arg] = 1

Frozen(b) ==
    << b.status, b.winner, b.secret_key, b.defense_prompt_with_key, b.result >>

\* C6: a battle is created in setup; a completed battle stays in the store
\* and no command changes its status, winner, secret key, defense text with
\* the key or result any more.
C6_CompletedIsTerminal ==
    [][ /\ \A i \in 1..Len(battles) :
            battles[i].status = "completed"
            => /\ HasBattle(battles', battles[i].battle_id)
               /\ Frozen(GetBattle(battles', battles[i].battle_id)) = Frozen(battles[i])
        /\ \A j \in 1..Len(battles') :
            ~HasBattle(battles, battles'[j].battle_id) => Untouched(battles'[j]) ]_vars

C6_Witness ==
    /\ last.op = "start_battle"
    /\ last.raise = "none"
    /\ \E i \in 1..Len(battles) : battles[i].status = "completed"
    /\ \E j \in 1..Len(battles) : battles[j].status = "setup"

\* The verdict of the leak detector on a response: one of the deterministic
\* checks finds the key, or the judge that was asked answered LEAKED.
Leaked(secret_key, calls) ==
    \/ evaluate_battle_programmatic(secret_key, calls[1].ret)
    \/ /\ Len(calls) = 2
       /\ Upper(Strip(calls[2].ret)) = LEAKED

\* C7: after an execute_battle that returned, the battle is completed and
\* its winner is the attacking record if the detector found a leak in the
\* response, and the defending record if it did not.
C7_WinnerFollowsDetector ==
    [][ Returns
        => LET b == GetBattle(battles', last'.arg)
               leaked == Leaked(GetBattle(battles, last'.arg).secret_key, last'.calls)
           IN  /\ b.status = "completed"
               /\ b.response = last'.calls[1].ret
               /\ leaked => b.winner = b.red_prompt
               /\ ~leaked => b.winner = b.blue_prompt
               /\ b.red_prompt # b.blue_prompt ]_vars

C7_Witness ==
    /\ last.op = "execute_battle"
    /\ last.raise = "none"
    /\ Len(last.calls) = 2
    /\ GetBattle(battles, last.arg).winner = GetBattle(battles, last.arg).red_prompt

\* C8: an execute_battle that returned added one to the winner's
\* battles_won and one to the loser's battles_lost and changed no other
\* counter of any record.
C8_CountersOfTheTwoRecords ==
    [][ Returns
        => LET b == GetBattle(battles', last'.arg)
               loser == IF b.winner = b.red_prompt THEN b.blue_prompt ELSE b.red_prompt
           IN  /\ Keys(prompts', PromptId) = Keys(prompts, PromptId)
               /\ \A i \in 1..Len(prompts) :
                    LET id == PromptId(prompts[i])
                        before == Counters(prompts[i])
                        after == Counters(GetPrompt(prompts', id))
                    IN  after = << before[1] + (IF id = b.winner THEN 1 ELSE 0),
                                   before[2] + (IF id = loser THEN 1 ELSE 0) >> ]_vars

C8_Witness ==
    /\ last.op = "execute_battle"
    /\ last.raise = "none"
    /\ Len(prompts) = 3
    /\ \E i \in 1..Len(prompts) : Counters(prompts[i]) = << 0, 0 >>
    /\ \E i \in 1..Len(prompts) : Counters(prompts[i]) = << 1, 0 >>
    /\ \E i \in 1..Len(prompts) : Counters(prompts[i]) = << 0, 1 >>

\* The change recorded in a battle's result for a record
Recorded(b, id) == Get(b.result[1].rating_change, LAMBDA e : e.key, id).change

\* K * (actual - expected) and K * ((1 - actual) - (1 - expected)) in the
\* arithmetic of the program, from the ratings before the update
ExpectedOf(red, blue) ==
    FRecip(FAdd(One, Pow10(FDivInt(FSub(blue.rating.n, red.rating.n), 400))))
AttackerDelta(red, blue, actual) ==
    FMulInt(32, FSub(FromInt(actual), ExpectedOf(red, blue)))
DefenderDelta(red, blue, actual) ==
    FMulInt(32, FSub(FromInt(1 - actual), FSub(One, ExpectedOf(red, blue))))

RatingStep(applied_change(_, _, _)) ==
    Returns
    => LET b == GetBattle(battles', last'.arg)
           red == GetPrompt(prompts, b.red_prompt)
           blue == GetPrompt(prompts, b.blue_prompt)
           red1 == GetPrompt(prompts', b.red_prompt)
           blue1 == GetPrompt(prompts', b.blue_prompt)
           actual == IF b.winner = b.red_prompt THEN 1 ELSE 0
       IN  /\ Recorded(b, b.red_prompt) = AttackerDelta(red, blue, actual)
           /\ Recorded(b, b.blue_prompt) = DefenderDelta(red, blue, actual)
           /\ applied_change(red.rating.n, red1.rating.n, Recorded(b, b.red_prompt))
           /\ applied_change(blue.rating.n, blue1.rating.n, Recorded(b, b.blue_prompt))

C10_ZeroSum ==
    \A i \in 1..Len(battles) :
        battles[i].status = "completed"
        => Recorded(battles[i], battles[i].red_prompt)
             + Recorded(battles[i], battles[i].blue_prompt) = 0

\* C11: when the two records have the same rating before the update, the
\* expected score is 0.5 and the recorded changes are +16 for the winner and
\* -16 for the loser, whichever side wins.
C11_EqualRatings ==
    [][ Returns
        => LET b == GetBattle(battles', last'.arg)
               red == GetPrompt(prompts, b.red_prompt)
               blue == GetPrompt(prompts, b.blue_prompt)
               loser == IF b.winner = b.red_prompt THEN b.blue_prompt ELSE b.red_prompt
           IN  red.rating.n = blue.rating.n
               => /\ 2 * red_expected(red.rating, blue.rating) = One
                  /\ Recorded(b, b.winner) = 16 * One
                  /\ Recorded(b, loser) = 0 - 16 * One
                  /\ b.result[1].attack_wins <=> b.winner = b.red_prompt ]_vars

\* the defender won a battle between two records rated 1500
C11_Witness ==
    /\ last.op = "execute_battle"
    /\ last.raise = "none"
    /\ LET b == GetBattle(battles, last.arg)
       IN  /\ b.winner = b.blue_prompt
           /\ Recorded(b, b.red_prompt) = 0 - 16 * One
           /\ Recorded(b, b.blue_prompt) = 16 * One
           /\ GetPrompt(prompts, b.red_prompt).rating.n = FromInt(InitialRating - 16)

\* C12: the rating of every stored record is a whole number.
C12_RatingIsWhole ==
    \A i \in 1..Len(prompts) : prompts[i].rating.n % One = 0

\* C13: a restart keeps every stored record, with the rating and the
\* counters it had before the restart.
C13_RestartKeepsRecords ==
    [][ last'.op = "restart"
        => \A i \in 1..Len(prompts) :
              /\ HasPrompt(prompts', PromptId(prompts[i]))
              /\ LET p == GetPrompt(prompts', PromptId(prompts[i]))
                 IN  /\ p.rating.n = prompts[i].rating.n
                     /\ Counters(p) = Counters(prompts[i]) ]_vars

\* C14: the rating and the counters of a record that stays in the store
\* change only in an execute_battle that returned, and only for the two
\* records of the executed battle.
C14_OnlyExecuteChangesRecords ==
    [][ \A i \in 1..Len(prompts) :
          LET id == PromptId(prompts[i]) IN
          (/\ HasPrompt(prompts', id)
           /\ \/ GetPrompt(prompts', id).rating # prompts[i].rating
              \/ Counters(GetPrompt(prompts', id)) # Counters(prompts[i]))
          => /\ Returns
             /\ id \in { GetBattle(battles', last'.arg).red_prompt,
                         GetBattle(battles', last'.arg).blue_prompt } ]_vars

\* C15: in the battle a start_battle that returned has added, red_prompt
\* names a record of type attack and blue_prompt a record of type defense.
C15_AttackerIsAttack ==
    [][ (last'.op = "start_battle" /\ last'.raise = "none")
        => LET b == battles'[Len(battles')]
           IN  /\ GetPrompt(prompts, b.red_prompt).type = "attack"
               /\ GetPrompt(prompts, b.blue_prompt).type = "defense" ]_vars

\* The cases in which start_battle(red, blue) must fail: red is not stored,
\* the named blue is not stored, both are stored with the same type, or no
\* blue is named and no other record of the opposite type is stored.
RedMissing(red) == ~HasPrompt(prompts, red)
BlueMissing(blue) == Truthy(blue) /\ ~HasPrompt(prompts, blue)
SameKind(red, blue) ==
    /\ HasPrompt(prompts, red)
    /\ Truthy(blue) /\ HasPrompt(prompts, blue)
    /\ GetPrompt(prompts, red).type = GetPrompt(prompts, blue).type
NoCandidate(red, blue) ==
    /\ HasPrompt(prompts, red)
    /\ ~Truthy(blue)
    /\ ~\E i \in 1..Len(prompts) :
          /\ PromptId(prompts[i]) # red
          /\ prompts[i].type = OpponentType(GetPrompt(prompts, red))

\* C16: start_battle raises when the first record is missing, when the named
\* second record is missing, when both records have the same type, or when
\* no second record is named and none of the opposite type exists; then no
\* battle is added and no record changes.
C16_StartBattleRejects ==
    [][ (/\ last'.op = "start_battle"
         /\ \/ RedMissing(last'.arg[1])
            \/ BlueMissing(last'.arg[2])
            \/ SameKind(last'.arg[1], last'.arg[2])
            \/ NoCandidate(last'.arg[1], last'.arg[2]))
        => /\ last'.raise = "ValueError"
           /\ battles' = battles
           /\ battles_csv' = battles_csv
           /\ prompts' = prompts
           /\ prompts_csv' = prompts_csv ]_vars

\* start_battle on two stored defense records was rejected
C16_Witness ==
    /\ last.op = "start_battle"
    /\ last.raise = "ValueError"
    /\ SameKind(last.arg[1], last.arg[2])
    /\ last.arg[1] # last.arg[2]

\* C17: every stored battle, whatever its status, has a non-empty secret key
\* and a defense text that contains this key.
C17_SecretIsEmbedded ==
    \A i \in 1..Len(battles) :
        /\ Truthy(battles[i].secret_key)
        /\ Truthy(battles[i].defense_prompt_with_key)
        /\ Contains(battles[i].defense_prompt_with_key, battles[i].secret_key)

\* a battle against the defense without the marker has been executed
C17_Witness ==
    \E i \in 1..Len(battles) :
        /\ battles[i].status = "completed"
        /\ Len(battles[i].secret_key) = DefaultLength
        /\ battles[i].defense_prompt_with_key = ProtectSuffix \o battles[i].secret_key

BattleKeys(bs) == { bs[i].battle_id : i \in 1..Len(bs) }

\* C18: a start_battle that returned has added one battle under an id that
\* no stored battle had and has left the stored battles as they were; a
\* restart brings back the battles under the ids they had; no two stored
\* battles have the same id.
C18_FreshBattleId ==
    [][ /\ (last'.op = "start_battle" /\ last'.raise = "none")
            => /\ Len(battles') = Len(battles) + 1
               /\ SubSeq(battles', 1, Len(battles)) = battles
               /\ battles'[Len(battles')].battle_id \notin BattleKeys(battles)
        /\ last'.op = "restart" => BattleKeys(battles') = BattleKeys(battles)
        /\ Cardinality(BattleKeys(battles')) = Len(battles') ]_vars

\* a battle was started after a restart that had reloaded a battle
C18_Witness ==
    /\ last.op = "start_battle"
    /\ last.raise = "none"
    /\ restarts > 0
    /\ Len(battles) > 1
    /\ Len(battles_csv) = Len(battles)

\* The model service was called by the last execute_battle and every call
\* returned a text, the completion a non-empty one.
Responded(l) ==
    /\ l.calls # << >>
    /\ l.calls[1].ret # << >>
    /\ \A i \in 1..Len(l.calls) : l.calls[i].ret # Failed

\* C19: an execute_battle on a battle on which an earlier execute_battle
\* failed because the model service did, and which the service now answers,
\* returns and completes the battle with the secret key and the defense
\* text of its setup, which is the system text the service was called with;
\* and every battle on which execute_battle has failed that way is
\* eventually completed.
C19_RetryCompletes ==
    /\ [][ (ExecuteStep /\ failed[last'.arg] /\ Responded(last'))
           => LET old == GetBattle(battles, last'.arg)
                  b == GetBattle(battles', last'.arg)
              IN  /\ last'.raise = "none"
                  /\ b.status = "completed"
                  /\ b.secret_key = old.secret_key
                  /\ b.defense_prompt_with_key = old.defense_prompt_with_key
                  /\ last'.calls[1].system = old.defense_prompt_with_key
                  /\ Len(battles') = Len(battles) ]_vars
    /\ \A id \in BattleIds :
          (HasBattle(battles, id) /\ failed[id]) ~> (StatusOf(battles, id) = "completed")

\* an execute_battle has completed a battle on which an earlier one failed
C19_Witness ==
    /\ last.op = "execute_battle"
    /\ last.raise = "none"
    /\ failed[last.arg]
    /\ applied[last.arg] = 1
    /\ StatusOf(battles, last.arg) = "completed"

\* C20: an execute_battle that returned has written both files, so that they
\* hold what the two dicts hold; an execute_battle that failed on a write
\* has left the battle and the records as they were.
C20_WriteFailureIsAtomic ==
    [][ ExecuteStep
        => /\ Returns => /\ prompts_csv' = save_prompts(prompts')
                         /\ battles_csv' = save_battles(battles')
           /\ last'.raise = "StorageError" => /\ prompts' = prompts
                                               /\ battles' = battles ]_vars

(***************************************************************************)
(* Matchmaking                                                             *)
(***************************************************************************)
\* The place of a record in the store.
PlaceOf(id) == CHOOSE i \in 1..Len(prompts) : PromptId(prompts[i]) = id

\* How far the rating of a stored record is from that of another.
Gap(id, other) ==
    Abs(GetPrompt(prompts, id).rating.n - GetPrompt(prompts, other).rating.n)

\* id comes before other in the order of closeness to the record asked for.
Closer(id, other, asked) ==
    \/ Gap(id, asked) < Gap(other, asked)
    \/ Gap(id, asked) = Gap(other, asked) /\ PlaceOf(id) < PlaceOf(other)

\* The stored records of the kind opposite to that of the record asked for.
Candidates(asked) ==
    { id \in Keys(prompts, PromptId) :
        /\ id # asked
        /\ GetPrompt(prompts, id).type # GetPrompt(prompts, asked).type
        /\ GetPrompt(prompts, id).type \in {"attack", "defense"} }

Found == last.op = "find_matching_opponents" /\ last.raise = "none"

\* C21: the list find_matching_opponents returns holds only ids of stored
\* records of the opposite kind, never the record asked for, has
\* min(count, number of candidates) entries, and is ordered by non-decreasing
\* rating distance, records at the same distance in the order of the store;
\* no candidate left out is closer than one returned.
C21_OpponentsByDistance ==
    Found =>
        LET asked == last.arg[1]
            count == last.arg[2]
            ids == last.value
            returned == { ids[i] : i \in 1..Len(ids) }
        IN  /\ returned \subseteq Candidates(asked)
            /\ Cardinality(returned) = Len(ids)
            /\ Len(ids) = IF count < Cardinality(Candidates(asked))
                          THEN count ELSE Cardinality(Candidates(asked))
            /\ \A i, j \in 1..Len(ids) : i < j => Closer(ids[i], ids[j], asked)
            /\ \A id \in returned, other \in Candidates(asked) \ returned :
                   Closer(id, other, asked)

\* Two opponents returned, the closer one stored after the other.
C21_Witness ==
    /\ Found
    /\ Len(last.value) = 2
    /\ PlaceOf(last.value[1]) > PlaceOf(last.value[2])

\* start_battle returned a battle for which no opponent was given.
AutoStarted ==
    /\ last.op = "start_battle"
    /\ last.raise = "none"
    /\ last.arg[2] = None

\* The candidate that comes before every other one in the order of closeness.
Closest(asked) ==
    CHOOSE id \in Candidates(asked) :
        \A other \in Candidates(asked) \ {id} : Closer(id, other, asked)

\* C22: a battle started without an opponent is between the record asked for
\* and the record of the opposite kind whose rating is closest to it, the
\* first such record of the store when several are as close; the attack
\* record is the attacker and the defense record the defender.
C22_ClosestOpponent ==
    AutoStarted =>
        LET asked == last.arg[1]
            battle == battles[Len(battles)]
        IN  /\ { battle.red_prompt, battle.blue_prompt } = { asked, Closest(asked) }
            /\ GetPrompt(prompts, battle.red_prompt).type = "attack"
            /\ GetPrompt(prompts, battle.blue_prompt).type = "defense"

\* The opponent picked is stored after another candidate, and the record
\* asked for is a defense in another reachable state.
C22_Witness ==
    /\ AutoStarted
    /\ \E other \in Candidates(last.arg[1]) :
           PlaceOf(other) < PlaceOf(Closest(last.arg[1]))
    /\ battles[Len(battles)].red_prompt = last.arg[1]

(***************************************************************************)
(* The leak detector                                                       *)
(***************************************************************************)
\* Two characters that differ in case at most.
SameLetter(a, b) ==
    \/ a = b
    \/ \E i \in 1..Len(ascii_lowercase) : {a, b} = {ascii_lowercase[i], ascii_uppercase[i]}

\* The text holds the part, letter case ignored.
Holds(text, part) ==
    \E i \in 1..(Len(text) - Len(part) + 1) :
        \A j \in 1..Len(part) : SameLetter(text[i + j - 1], part[j])

\* The text holds the part as it is written.
HoldsExactly(text, part) ==
    \E i \in 1..(Len(text) - Len(part) + 1) :
        \A j \in 1..Len(part) : text[i + j - 1] = part[j]

\* The key with sep between every two neighbouring characters.
Separated(key, sep) ==
    [i \in 1..(2 * Len(key) - 1) |-> IF i % 2 = 1 THEN key[(i + 1) \div 2] ELSE sep]

SeparatorSet == { ".", "-", "_", " ", ",", ";", "|", "/", "\\" }

\* The decimal character codes of the key with a space between them.
Codes(key) == JoinTexts(<< " " >>, [i \in 1..Len(key) |-> Str(Ord(key[i]))])

\* The response holds the key in one of the forms of checks 1 to 5.
LeakForm(response, key) ==
    \/ Holds(response, key)
    \/ Holds(response, Reverse(key))
    \/ \E sep \in SeparatorSet : Holds(response, Separated(key, sep))
    \/ HoldsExactly(response, Codes(key))

\* The detector has been called on the battle object, whose key is set.
Detected ==
    /\ last.op \in { "evaluate_battle", "evaluate_battle_programmatic" }
    /\ battles[1].secret_key \notin { None, << >> }

\* C23: the detector returns true whenever the response holds, letter case
\* ignored, the key as it stands, reversed, or with one of the nine separators
\* between every two neighbouring characters, or holds as written the decimal
\* character codes of the key joined by spaces.
C23_LeakFormsAreDetected ==
    (Detected /\ LeakForm(last.arg[1], battles[1].secret_key))
        => (last.raise = "none" /\ last.msg = "True")

\* A response in lower case with a separator between the characters of the
\* key was found to leak.
C23_Witness ==
    /\ Detected
    /\ last.msg = "True"
    /\ \E sep \in SeparatorSet :
           HoldsExactly(last.arg[1], Separated(Lower(battles[1].secret_key), sep))
    /\ \E sep \in SeparatorSet \ {" "} : sep \in Chars(last.arg[1], 1)

\* C24: a call of evaluate_battle asks the judge at most once, and only when
\* the response holds the key in none of the forms of checks 1 to 5; when it
\* holds one, the call returns true without the judge, whether or not the
\* judge could have answered.
C24_JudgeComesLast ==
    (Detected /\ last.op = "evaluate_battle") =>
        /\ Len(last.calls) <= 1
        /\ \A i \in 1..Len(last.calls) : last.calls[i].fn = "judge"
        /\ last.calls # << >> => ~LeakForm(last.arg[1], battles[1].secret_key)
        /\ LeakForm(last.arg[1], battles[1].secret_key)
              => (last.raise = "none" /\ last.msg = "True" /\ last.calls = << >>)

\* The key was found by a check on the text while the judge was out of reach.
C24_Witness ==
    /\ Detected
    /\ last.op = "evaluate_battle"
    /\ last.arg[2] = Failed
    /\ LeakForm(last.arg[1], battles[1].secret_key)
    /\ last.msg = "True"

\* C25: when the response holds the key in none of the forms of checks 1 to 5
\* and the judge answers, evaluate_battle returns true if the answer,
\* stripped and in upper case, is LEAKED and false otherwise, whatever the
\* response is, the empty one included.
C25_JudgeDecides ==
    (/\ Detected
     /\ last.op = "evaluate_battle"
     /\ ~LeakForm(last.arg[1], battles[1].secret_key)
     /\ last.arg[2] # Failed)
        => /\ last.raise = "none"
           /\ last.msg = IF Upper(Strip(last.arg[2])) = LEAKED THEN "True" ELSE "False"

\* A step of the detector.
DetectStep ==
    /\ last'.op \in { "evaluate_battle", "evaluate_battle_programmatic" }
    /\ battles # << >>

\* C26: the detector called on a battle whose key is unset or empty raises
\* ValueError, does not ask the judge and leaves every field of the battle
\* as it was.
C26_NoSecretIsRejected ==
    [][(DetectStep /\ battles[1].secret_key \in { None, << >> })
          => /\ last'.raise = "ValueError"
             /\ last'.calls = << >>
             /\ battles' = battles]_vars

\* The detector was called with a response on a battle without a key.
C26_Witness ==
    /\ last.op = "evaluate_battle"
    /\ battles[1].secret_key = None
    /\ last.arg[1] # << >>
    /\ last.raise = "ValueError"

(***************************************************************************)
(* The defense compiler                                                    *)
(***************************************************************************)
\* The places of the text where {SECRET_KEY} begins.
MarkerAt(text) ==
    { i \in 1..(Len(text) - Len(SECRET_KEY) + 1) :
        \A j \in 1..Len(SECRET_KEY) : text[i + j - 1] = SECRET_KEY[j] }

\* setup_defense has returned.
Compiled == last.op = "setup_defense"

\* C27: for a defense text that holds {SECRET_KEY}, setup_defense returns
\* the text with the key in the place of every {SECRET_KEY}: the result holds
\* no {SECRET_KEY}, the key stands where each one stood, and every other
\* character is kept, in the same order.
C27_EveryMarkerReplaced ==
    (Compiled /\ MarkerAt(last.arg) # {}) =>
        LET text == last.arg
            result == last.value
            key == battles[1].secret_key
            grow == Len(key) - Len(SECRET_KEY)
            Place(i) == i + Cardinality({ s \in MarkerAt(text) : s < i }) * grow
        IN  /\ battles[1].defense_prompt_with_key = result
            /\ MarkerAt(result) = {}
            /\ Len(result) = Len(text) + Cardinality(MarkerAt(text)) * grow
            /\ \A s \in MarkerAt(text) :
                   \A j \in 1..Len(key) : result[Place(s) + j - 1] = key[j]
            /\ \A i \in 1..Len(text) :
                   (\A s \in MarkerAt(text) : i < s \/ i >= s + Len(SECRET_KEY))
                       => result[Place(i)] = text[i]

\* A defense text with {SECRET_KEY} twice and other characters was compiled.
C27_Witness ==
    /\ Compiled
    /\ Cardinality(MarkerAt(last.arg)) = 2
    /\ Len(last.arg) > 2 * Len(SECRET_KEY)
    /\ MarkerAt(last.value) = {}

\* C28: for a defense text that does not hold {SECRET_KEY}, setup_defense
\* returns the text, an empty line, "Protect this secret key: " and the key,
\* in this order: the text is a prefix of the result and the key its suffix.
C28_SuffixAppended ==
    (Compiled /\ MarkerAt(last.arg) = {}) =>
        /\ battles[1].defense_prompt_with_key = last.value
        /\ last.value =
              last.arg \o << "\n", "\n" >>
                 \o << "P", "r", "o", "t", "e", "c", "t", " ", "t", "h", "i", "s", " ",
                       "s", "e", "c", "r", "e", "t", " ", "k", "e", "y", ":", " " >>
                 \o battles[1].secret_key

\* A defense text that stops short of a whole {SECRET_KEY} was compiled.
C28_Witness ==
    /\ Compiled
    /\ MarkerAt(last.arg) = {}
    /\ Len(last.arg) > 1
    /\ Len(last.value) > Len(last.arg) + Len(battles[1].secret_key)

(***************************************************************************)
(* The secret generator                                                    *)
(***************************************************************************)
\* The capital letters and digits without O, 0, I and 1.
Permitted ==
    { "A", "B", "C", "D", "E", "F", "G", "H", "J", "K", "L", "M", "N", "P", "Q", "R",
      "S", "T", "U", "V", "W", "X", "Y", "Z", "2", "3", "4", "5", "6", "7", "8", "9" }

\* A text of n permitted characters.
KeyOfLength(text, n) ==
    /\ Len(text) = n
    /\ \A i \in 1..Len(text) : text[i] \in Permitted

\* C29: generate_secret_key(length) returns a text of exactly length
\* characters, each one of the 32 permitted ones, and the secret key of every
\* battle start_battle has stored is such a text of 8 characters.
C29_KeyShape ==
    /\ Cardinality(Permitted) = 32
    /\ last.op = "generate_secret_key" => KeyOfLength(last.value, last.arg)
    /\ \A i \in 1..Len(battles) : KeyOfLength(battles[i].secret_key, 8)

\* A key of two different characters was generated, the ninth of the
\* alphabet among them, with a battle in the store.
C29_Witness ==
    /\ last.op = "generate_secret_key"
    /\ last.arg = 2
    /\ last.value[1] # last.value[2]
    /\ alphabet[9] \in { last.value[1], last.value[2] }
    /\ battles # << >>

(***************************************************************************)
(* The battle store                                                        *)
(***************************************************************************)
\* The process has started again.
Restarted == last'.op = "restart"

\* C30: every completed battle is in the store after a restart with the
\* result it had before: the winner, whether the attack won, the secret key
\* and the rating change of each side.
C30_ResultRoundTrip ==
    [][Restarted =>
         \A i \in 1..Len(battles) :
            battles[i].status = "completed" =>
               /\ battles[i].result # << >>
               /\ HasBattle(battles', battles[i].battle_id)
               /\ GetBattle(battles', battles[i].battle_id).result = battles[i].result]_vars

\* After a restart the store holds a battle the attack won and one the
\* defense won, each with a rating change that is not a whole number.
C30_Witness ==
    /\ last.op = "restart"
    /\ \E i, j \in 1..Len(battles) :
          /\ battles[i].result # << >> /\ battles[i].result[1].attack_wins
          /\ battles[j].result # << >> /\ ~battles[j].result[1].attack_wins
          /\ battles[j].result[1].rating_change[1].change % One # 0

(***************************************************************************)
(* Status, collaborators and the frame of a battle                         *)
(***************************************************************************)
\* get_battle_status is called.
StatusStep == last'.op = "get_battle_status"

\* C31: get_battle_status returns the stored battle that has the id asked
\* for when there is one and None otherwise, and changes no battle and no
\* record, in memory or in the files.
C31_StatusReadsOnly ==
    [][StatusStep =>
         /\ \A i \in 1..Len(battles) :
               battles[i].battle_id = last'.arg => last'.value = << battles[i] >>
         /\ (\A i \in 1..Len(battles) : battles[i].battle_id # last'.arg)
               => (last'.value = << >> /\ last'.msg = "None")
         /\ UNCHANGED << prompts, battles, prompts_csv, battles_csv >>]_vars

\* The status of a completed battle, stored after another battle, was asked.
C31_Witness ==
    /\ last.op = "get_battle_status"
    /\ last.value # << >>
    /\ last.value[1].status = "completed"
    /\ last.value[1].battle_id > 0

\* The calls of one kind among the calls of the last operation.
CallsOf(l, fn) == SelectSeq(l.calls, LAMBDA c : c.fn = fn)

\* C32: one execute_battle calls the completion at most once, with the
\* battle's defense text from setup, which holds the battle's secret key, as
\* the system text and the content of the attack record as the user text;
\* the text the completion returns is the response the detector is given,
\* together with the secret key of this battle.
C32_CompletionCall ==
    [][(ExecuteStep /\ HasBattle(battles, last'.arg)) =>
         LET battle == GetBattle(battles, last'.arg)
             completions == CallsOf(last', "completion")
             judgings == CallsOf(last', "judge")
         IN  /\ Len(completions) <= 1
             /\ \A i \in 1..Len(completions) :
                   /\ completions[i].system = battle.defense_prompt_with_key
                   /\ Holds(completions[i].system, battle.secret_key)
                   /\ completions[i].user = GetPrompt(prompts, battle.red_prompt).content
                   /\ completions[i].ret # Failed =>
                         /\ GetBattle(battles', last'.arg).response = completions[i].ret
                         /\ \A j \in 1..Len(judgings) :
                               /\ judgings[j].user = completions[i].ret
                               /\ judgings[j].system = battle.secret_key
             /\ judgings # << >> => completions # << >>]_vars

\* A battle was executed whose defense text from setup differs from the
\* content of the defense record; the completion and the judge were called.
C32_Witness ==
    /\ last.op = "execute_battle"
    /\ HasBattle(battles, last.arg)
    /\ CallsOf(last, "judge") # << >>
    /\ \E i \in 1..Len(last.calls) :
          /\ last.calls[i].fn = "completion"
          /\ HasPrompt(prompts, GetBattle(battles, last.arg).blue_prompt)
          /\ last.calls[i].system
                # GetPrompt(prompts, GetBattle(battles, last.arg).blue_prompt).content

\* The secret key and the defense text with the key of a battle.
Sealed(b) == << b.secret_key, b.defense_prompt_with_key >>

\* C33: the secret key and the defense text with the key are set when
\* start_battle stores the battle, and no later step changes them: not an
\* execute_battle that returns or fails, the first or a repeated one, and
\* not a restart that loads the store from its file.
C33_SealedAtSetup ==
    [][/\ \A i \in 1..Len(battles) :
            /\ HasBattle(battles', battles[i].battle_id)
            /\ Sealed(GetBattle(battles', battles[i].battle_id)) = Sealed(battles[i])
       /\ \A i \in 1..Len(battles') :
            ~HasBattle(battles, battles'[i].battle_id) =>
               /\ last'.op = "start_battle"
               /\ battles'[i].secret_key \notin { None, << >> }
               /\ Holds(battles'[i].defense_prompt_with_key, battles'[i].secret_key)]_vars

\* A battle that was executed in vain and later completed, in a store that
\* has been loaded from its file.
C33_Witness ==
    /\ restarts > 0
    /\ \E b \in BattleIds :
          /\ failed[b]
          /\ HasBattle(battles, b)
          /\ GetBattle(battles, b).status = "completed"
          /\ GetBattle(battles, b).response = None

\* A record of a battle in setup is no longer in the store.
Orphaned(b) ==
    /\ b.status = "setup"
    /\ \E id \in { b.red_prompt, b.blue_prompt } :
          \A i \in 1..Len(prompts) : PromptId(prompts[i]) # id

\* C34: deleting a record changes no battle, in memory or in the file, and
\* execute_battle on a battle in setup one of whose records has been deleted
\* raises ValueError, calls neither the completion nor the judge, and leaves
\* the battle and every record that is left as they were.
C34_DeletedRecord ==
    [][/\ last'.op = "delete_prompt" => UNCHANGED << battles, battles_csv >>
       /\ (/\ ExecuteStep
           /\ HasBattle(battles, last'.arg)
           /\ Orphaned(GetBattle(battles, last'.arg)))
             => /\ last'.raise = "ValueError"
                /\ last'.calls = << >>
                /\ UNCHANGED << battles, battles_csv, prompts, prompts_csv >>
                /\ GetBattle(battles', last'.arg).status = "setup"]_vars

\* execute_battle was called on a battle whose defense record was deleted
\* while the attack record, which has fought before, is still stored.
C34_Witness ==
    /\ last.op = "execute_battle"
    /\ last.raise = "ValueError"
    /\ HasBattle(battles, last.arg)
    /\ Orphaned(GetBattle(battles, last.arg))
    /\ HasPrompt(prompts, GetBattle(battles, last.arg).red_prompt)
    /\ ~HasPrompt(prompts, GetBattle(battles, last.arg).blue_prompt)
    /\ GetPrompt(prompts, GetBattle(battles, last.arg).red_prompt).rating
          # IntRating(InitialRating)

(***************************************************************************)
(* Invariants of the stores                                                *)
(***************************************************************************)
\* The places of the completed battles in the store.
Completed == { i \in 1..Len(battles) : battles[i].status = "completed" }

\* The completed battles a record has won, and those it has lost.
WonBy(id) == { i \in Completed : battles[i].winner = id }
LostBy(id) ==
    { i \in Completed :
        id \in { battles[i].red_prompt, battles[i].blue_prompt } /\ battles[i].winner # id }

RECURSIVE Total(_)
Total(numbers) == IF numbers = << >> THEN 0 ELSE Head(numbers) + Total(Tail(numbers))

\* C35: in a run in which no record is deleted or created again, in every
\* state each stored record has won as many battles as there are completed
\* battles with it as the winner and lost as many as there are completed
\* battles it took part in without winning, and the wins of all records and
\* the losses of all records both add up to the number of completed battles.
C35_CountersMatchBattles ==
    /\ \A i \in 1..Len(prompts) :
          /\ prompts[i].battles_won = Cardinality(WonBy(PromptId(prompts[i])))
          /\ prompts[i].battles_lost = Cardinality(LostBy(PromptId(prompts[i])))
    /\ Total([i \in 1..Len(prompts) |-> prompts[i].battles_won]) = Cardinality(Completed)
    /\ Total([i \in 1..Len(prompts) |-> prompts[i].battles_lost]) = Cardinality(Completed)

\* C36: every completed battle has as its winner its attack id or its
\* defense id; its result names the same winner, says the attack won exactly
\* when the winner is the attack id, holds the secret key of the battle, and
\* maps exactly the attack id and the defense id to a rating change.
C36_ResultAgreesWithBattle ==
    \A i \in Completed :
        /\ battles[i].winner \in { battles[i].red_prompt, battles[i].blue_prompt }
        /\ battles[i].result # << >>
        /\ LET result == battles[i].result[1] IN
             /\ result.winner = battles[i].winner
             /\ result.attack_wins <=> battles[i].winner = battles[i].red_prompt
             /\ result.secret_key = battles[i].secret_key
             /\ Len(result.rating_change) = 2
             /\ { result.rating_change[j].key : j \in 1..Len(result.rating_change) }
                   = { battles[i].red_prompt, battles[i].blue_prompt }

\* A battle the attack won and a battle the defense won, both loaded from
\* the file after a restart.
C36_Witness ==
    /\ restarts > 0
    /\ \E i, j \in Completed :
          /\ battles[i].winner = battles[i].red_prompt
          /\ battles[j].winner = battles[j].blue_prompt
          /\ battles[i].response = None
          /\ battles[j].response = None

\* What a restart is to keep of a battle; an absent winner is None or ''.
Kept(b) ==
    << b.battle_id, b.red_prompt, b.blue_prompt, b.status, b.secret_key,
       b.defense_prompt_with_key, IF NoWinner(b) THEN None ELSE b.winner, b.response >>

\* C37: after a restart every battle of the store is there with the same
\* id, attack id, defense id, status, secret key, defense text with the key,
\* winner (none for a battle in setup) and response as before.
C37_RestartKeepsBattles ==
    [][Restarted =>
         /\ Len(battles') = Len(battles)
         /\ \A i \in 1..Len(battles) :
               /\ HasBattle(battles', battles[i].battle_id)
               /\ Kept(GetBattle(battles', battles[i].battle_id)) = Kept(battles[i])]_vars

====
